---- MODULE Spec2Model ----
(***************************************************************************)
(* State machine of the LoanLens session engine (src/index.js, App):       *)
(* the chat collection, the active-chat pointer, the single-flight turn    *)
(* controller (sendMessage), the completion request/response cycle and     *)
(* the localStorage persistence effects.                                   *)
(*                                                                         *)
(* Text is a sequence of tokens: user input is a sequence of characters,   *)
(* generated text a sequence of literal pieces; '' is <<>> and string      *)
(* concatenation is \o.                                                    *)
(*                                                                         *)
(* One action is one run-to-completion task of the event loop: a UI event  *)
(* handler, or the continuation of sendMessage after one await, together   *)
(* with the re-render and the persistence effects that React runs before   *)
(* it dispatches the next event.                                           *)
(***************************************************************************)
EXTENDS Integers, Sequences, FiniteSets, TLC

VARIABLES
    mounted,            \* the mount effects of App have run
    chats,              \* useState([])    : sequence of Chat, most recent first
    activeChat,         \* useState(null)  : id of the active chat or Null
    inputValue,         \* useState('')    : text of the input box
    isLoading,          \* useState(false) : the in-flight flag
    settings,           \* useState({...}) : Settings
    streamingMessage,   \* useState('')    : transient streaming buffer
    turns,              \* the sendMessage invocations suspended at an await
    lsChats,            \* localStorage['loanlens-chats']
    lsSettings,         \* localStorage['loanlens-settings']
    lsActive,           \* localStorage['loanlens-active-chat']
    nextId,             \* source of generateId(): the next unused id
    clock,              \* source of new Date(): a logical clock, one tick a read
    emitted,            \* setStreamingMessage calls of the streaming loop, in order
    messageContent,     \* MessageContent: the content prop of the call
    parts,              \* MessageContent: the segments pushed so far
    lastIndex,          \* MessageContent: offset of the first character not consumed
    matching,           \* MessageContent: TRUE while the exec loop runs
    loadEffect          \* load effect: <<>>, or <<the values getItem returned>>

\* the variables of a call of MessageContent
parser == <<messageContent, parts, lastIndex, matching>>

vars == <<mounted, chats, activeChat, inputValue, isLoading, settings,
          streamingMessage, turns, lsChats, lsSettings, lsActive, nextId,
          clock, emitted, parser, loadEffect>>

-----------------------------------------------------------------------------
(* Bounds of the model *)

\* ids that generateId may hand out in one run (chats and messages together)
MaxIds == 4

-----------------------------------------------------------------------------
(* Values *)

\* JavaScript null (activeChat) and a missing localStorage key (getItem -> null)
Null == 0

\* findIndex's "not found" (-1 in JavaScript; sequences here start at 1)
NotFound == 0

\* title rule: inputValue.slice(0, 50) + (inputValue.length > 50 ? '...' : '')
TitleLen == 50

\* the initial settings object of App; endpoint, model and prompt fields stand
\* for the literals of the source
DefaultSettings ==
    [connectionType |-> "cloud",
     cloudEndpoint  |-> "https://text.pollinations.ai/openai",
     apiKey         |-> <<>>,
     model          |-> "openai",
     localEndpoint  |-> "http://localhost:11434/v1",
     localModel     |-> "llama2",
     streaming      |-> TRUE,
     systemPrompt   |-> <<"DEFAULT_SYSTEM_PROMPT">>]

\* settings the modal is made to save: the defaults (cloud, no key, streaming),
\* cloud with a key and without streaming, local with a key left in the form
SettingsChoices ==
    { DefaultSettings,
      [DefaultSettings EXCEPT !.apiKey = <<"s", "k">>, !.streaming = FALSE],
      [DefaultSettings EXCEPT !.connectionType = "local", !.apiKey = <<"s", "k">>] }

\* texts the user types into the input box: nothing, whitespace only, a prompt
Inputs == { <<>>, <<" ", "\n">>, <<"h", "i">> }

-----------------------------------------------------------------------------
(* Pure helpers of the source *)

Whitespace == {" ", "\t", "\n", "\r"}

\* String.prototype.trim: drops leading and trailing whitespace
RECURSIVE TrimStart(_)
TrimStart(s) ==
    IF s # <<>> /\ Head(s) \in Whitespace THEN TrimStart(Tail(s)) ELSE s

RECURSIVE TrimEnd(_)
TrimEnd(s) ==
    IF s # <<>> /\ s[Len(s)] \in Whitespace
    THEN TrimEnd(SubSeq(s, 1, Len(s) - 1)) ELSE s

Trim(s) == TrimEnd(TrimStart(s))

\* the entry check of sendMessage: if (!inputValue.trim() || isLoading) return
\* The first two are variants: one without the in-flight test, one without trim.
RejectedBlankOnly(input, loading) == Trim(input) = <<>>

RejectedEmptyOnly(input, loading) == input = <<>> \/ loading

Rejected(input, loading) == Trim(input) = <<>> \/ loading

\* inputValue.slice(0, 50) + (inputValue.length > 50 ? '...' : ''); the first
\* is a variant that adds the ellipsis from 50 characters on
TruncateFrom50(s) ==
    SubSeq(s, 1, IF Len(s) < TitleLen THEN Len(s) ELSE TitleLen)
        \o (IF Len(s) >= TitleLen THEN <<"...">> ELSE <<>>)

Truncate(s) ==
    SubSeq(s, 1, IF Len(s) < TitleLen THEN Len(s) ELSE TitleLen)
        \o (IF Len(s) > TitleLen THEN <<"...">> ELSE <<>>)

\* cs.findIndex(c => c.id === id)
FindIndex(cs, id) ==
    IF \E i \in DOMAIN cs : cs[i].id = id
    THEN CHOOSE i \in DOMAIN cs :
            cs[i].id = id /\ \A j \in DOMAIN cs : cs[j].id = id => i <= j
    ELSE NotFound

\* cs.filter(c => c.id !== id)
RemoveChat(cs, id) == SelectSeq(cs, LAMBDA c : c.id # id)

\* idx !== -1 ? chats with msg appended to chat idx : chats   (the updater
\* passed to setChats by both commits of sendMessage). The first is a variant
\* that falls back to the first chat when id is not found.
AppendToOrFirst(cs, id, msg) ==
    LET idx == IF FindIndex(cs, id) # NotFound THEN FindIndex(cs, id)
               ELSE IF Len(cs) > 0 THEN 1 ELSE NotFound
    IN  IF idx # NotFound
        THEN [cs EXCEPT ![idx] = [@ EXCEPT !.messages = Append(@, msg)]]
        ELSE cs

\* a variant that writes messages: [msg] without spreading the old messages
AppendToReplacing(cs, id, msg) ==
    LET idx == FindIndex(cs, id)
    IN  IF idx # NotFound
        THEN [cs EXCEPT ![idx] = [@ EXCEPT !.messages = <<msg>>]]
        ELSE cs

AppendTo(cs, id, msg) ==
    LET idx == FindIndex(cs, id)
    IN  IF idx # NotFound
        THEN [cs EXCEPT ![idx] = [@ EXCEPT !.messages = Append(@, msg)]]
        ELSE cs

\* deleteChat: the active pointer after deleting id from cs. The first three
\* are variants: one that never repoints, one that takes the first chat of the
\* collection before the removal, one that repoints whichever chat is deleted.
NextActiveStale(cs, active, id) == active

NextActiveAlways(cs, active, id) ==
    IF Len(SelectSeq(cs, LAMBDA c : c.id # id)) > 0
    THEN SelectSeq(cs, LAMBDA c : c.id # id)[1].id
    ELSE Null

NextActiveUnfiltered(cs, active, id) ==
    IF active = id
    THEN IF Len(cs) > 0 THEN cs[1].id ELSE Null
    ELSE active

NextActiveNull(cs, active, id) == IF active = id THEN Null ELSE active

NextActive(cs, active, id) ==
    IF active = id
    THEN LET remaining == RemoveChat(cs, id)
         IN  IF Len(remaining) > 0 THEN remaining[1].id ELSE Null
    ELSE active

\* `<warning sign> Error: ${error.message}\n\nPlease check your API settings
\* and try again.` (the warning sign is U+26A0 U+FE0F, written "<warning> " here)
ErrorContentNoReason(reason) ==
    <<"<warning> ", "Error", ": ", "\n\n",
      "Please check your API settings and try again.">>

ErrorContent(reason) ==
    <<"<warning> ", "Error", ": ">> \o reason
        \o <<"\n\n", "Please check your API settings and try again.">>

\* `API Error: ${response.status}`; the first is a variant that leaves the
\* status out
ApiErrorMessageNoStatus(status) == <<"API Error">>

ApiErrorMessage(status) == <<"API Error: ", ToString(status)>>

\* response.ok
IsOk(status) == status >= 200 /\ status <= 299

-----------------------------------------------------------------------------
(* JSON and localStorage *)

\* a JSON object as the ordered list of its <<key, value>> members
MessageToJSON(m) ==
    << <<"id", m.id>>, <<"role", m.role>>, <<"content", m.content>>,
       <<"timestamp", m.timestamp>> >>

ChatToJSON(c) ==
    << <<"id", c.id>>, <<"title", c.title>>,
       <<"messages", [i \in DOMAIN c.messages |-> MessageToJSON(c.messages[i])]>>,
       <<"createdAt", c.createdAt>> >>

\* JSON.stringify(chats)
StringifyChats(cs) == [i \in DOMAIN cs |-> ChatToJSON(cs[i])]

\* JSON.stringify(settings)
StringifySettings(s) ==
    << <<"connectionType", s.connectionType>>, <<"cloudEndpoint", s.cloudEndpoint>>,
       <<"apiKey", s.apiKey>>, <<"model", s.model>>,
       <<"localEndpoint", s.localEndpoint>>, <<"localModel", s.localModel>>,
       <<"streaming", s.streaming>>, <<"systemPrompt", s.systemPrompt>> >>

\* the object a member list denotes (a repeated key keeps its last value)
Object(members) ==
    [k \in {members[i][1] : i \in DOMAIN members} |->
        members[CHOOSE i \in DOMAIN members :
                    members[i][1] = k
                    /\ \A j \in DOMAIN members : members[j][1] = k => j <= i][2]]

\* JSON.parse(savedChats)
ParseChats(text) ==
    [i \in DOMAIN text |->
        LET o == Object(text[i])
        IN  [o EXCEPT !.messages = [j \in DOMAIN @ |-> Object(@[j])]]]

\* { ...prev, ...JSON.parse(savedSettings) }
MergeSettings(prev, text) ==
    LET saved == Object(text)
    IN  [k \in DOMAIN prev \cup DOMAIN saved |->
            IF k \in DOMAIN saved THEN saved[k] ELSE prev[k]]

\* a localStorage entry: <<>> when the key is missing, <<text>> when it is set
Missing == <<>>
Stored(text) == <<text>>

-----------------------------------------------------------------------------
(* The completion request and the response body *)

\* JSON texts a server may send
JsonDeltaA == "{\"choices\":[{\"delta\":{\"content\":\"A\"}}]}"
JsonDeltaB == "{\"choices\":[{\"delta\":{\"content\":\"B\"}}]}"
JsonMessage == "{\"choices\":[{\"message\":{\"content\":\"Hi\"}}]}"
JsonEmpty == "{}"
JsonBlank == "{\"choices\":[{\"message\":{\"content\":\"\"}}]}"

\* JSON.parse of a text: the document, or a SyntaxError
JSONParse(text) ==
    IF Len(text) # 1 THEN [ok |-> FALSE]
    ELSE CASE text[1] = JsonDeltaA ->
                [ok |-> TRUE,
                 value |-> [choices |-> <<[delta |-> [content |-> <<"A">>]]>>]]
           [] text[1] = JsonDeltaB ->
                [ok |-> TRUE,
                 value |-> [choices |-> <<[delta |-> [content |-> <<"B">>]]>>]]
           [] text[1] = JsonMessage ->
                [ok |-> TRUE,
                 value |-> [choices |-> <<[message |-> [content |-> <<"H", "i">>]]>>]]
           [] text[1] = JsonEmpty -> [ok |-> TRUE, value |-> [choices |-> <<>>]]
           [] text[1] = JsonBlank ->
                [ok |-> TRUE,
                 value |-> [choices |-> <<[message |-> [content |-> <<>>]]>>]]
           [] OTHER -> [ok |-> FALSE]

\* doc.choices?.[0]?.[field]?.content, or <<>> when the path is absent
ChoiceContent(doc, field) ==
    IF /\ "choices" \in DOMAIN doc
       /\ Len(doc.choices) >= 1
       /\ field \in DOMAIN doc.choices[1]
       /\ "content" \in DOMAIN doc.choices[1][field]
    THEN doc.choices[1][field].content
    ELSE <<>>

\* parsed.choices?.[0]?.delta?.content || ''
DeltaContent(doc) == ChoiceContent(doc, "delta")

\* data.choices?.[0]?.message?.content || 'No response received.' The first is
\* a variant without the default.
MessageContentOfNoDefault(doc) == ChoiceContent(doc, "message")

MessageContentOf(doc) ==
    IF ChoiceContent(doc, "message") # <<>>
    THEN ChoiceContent(doc, "message")
    ELSE <<"No response received.">>

\* chunk.split('\n'): the pieces between consecutive line feeds, one more
\* piece than there are line feeds
Split(text) ==
    LET feeds == {i \in DOMAIN text : text[i] = "\n"}
        starts == {1} \cup {i + 1 : i \in feeds}
        start(k) == CHOOSE b \in starts : Cardinality({x \in starts : x < b}) = k - 1
        stop(b) == CHOOSE e \in feeds \cup {Len(text) + 1} :
                       e >= b /\ \A x \in feeds : x >= b => e <= x
    IN  [k \in 1..Cardinality(starts) |-> SubSeq(text, start(k), stop(start(k)) - 1)]

\* chunk.split('\n').filter(line => line.trim() !== '')
Lines(chunk) == SelectSeq(Split(chunk), LAMBDA line : Trim(line) # <<>>)

\* one pass of the body of `for (const line of lines)`: st is
\* [content |-> assistantContent, emits |-> the setStreamingMessage calls so far]
\* The first two are variants: one that emits the delta instead of the
\* accumulator, one that loses the accumulator on a line that does not parse.
ProcessLineSuffix(line, st) ==
    IF Len(line) >= 1 /\ line[1] = "data: "
    THEN LET data == Tail(line)
         IN  IF data = <<"[DONE]">> THEN st
             ELSE LET parsed == JSONParse(data)
                  IN  IF parsed.ok
                      THEN [content |-> st.content \o DeltaContent(parsed.value),
                            emits |-> Append(st.emits, DeltaContent(parsed.value))]
                      ELSE st
    ELSE st

ProcessLineResets(line, st) ==
    IF Len(line) >= 1 /\ line[1] = "data: "
    THEN LET data == Tail(line)
         IN  IF data = <<"[DONE]">> THEN st
             ELSE LET parsed == JSONParse(data)
                  IN  IF parsed.ok
                      THEN LET acc == st.content \o DeltaContent(parsed.value)
                           IN  [content |-> acc, emits |-> Append(st.emits, acc)]
                      ELSE [content |-> <<>>, emits |-> st.emits]
    ELSE st

ProcessLine(line, st) ==
    IF Len(line) >= 1 /\ line[1] = "data: "
    THEN LET data == Tail(line)
         IN  IF data = <<"[DONE]">> THEN st
             ELSE LET parsed == JSONParse(data)
                  IN  IF parsed.ok
                      THEN LET acc == st.content \o DeltaContent(parsed.value)
                           IN  [content |-> acc, emits |-> Append(st.emits, acc)]
                      ELSE st
    ELSE st

RECURSIVE ProcessLines(_, _)
ProcessLines(lines, st) ==
    IF lines = <<>> THEN st
    ELSE ProcessLines(Tail(lines), ProcessLine(Head(lines), st))

\* the statuses a server may answer with
Statuses == {200, 500}

\* the event streams a server may send, as the chunks reader.read() delivers:
\* delta A, a malformed data line, delta B and the end sentinel
Streams ==
    { << <<"data: ", JsonDeltaA, "\n", "\n">>,
         <<"data: ", "{\"choices\":[{\"del", "\n", "\n">>,
         <<"data: ", JsonDeltaB, "\n", "\n", "data: ", "[DONE]", "\n", "\n">> >> }

\* event streams of well-formed lines, one line a chunk: deltas A and B and the
\* end sentinel; delta B alone, with no sentinel
LineStreams ==
    { << <<"data: ", JsonDeltaA, "\n">>, <<"data: ", JsonDeltaB, "\n">>,
         <<"data: ", "[DONE]", "\n">> >>,
      << <<"data: ", JsonDeltaB, "\n">> >> }

\* the bodies a server may send to a request without streaming
Bodies == { <<JsonMessage>>, <<JsonEmpty>>, <<JsonBlank>>,
            <<"<html>", "Bad Gateway", "</html>">> }

\* the fetch call of sendMessage: URL, headers and JSON body. The first two are
\* variants: one that leaves the system message out, one that attaches the key
\* whatever the connection type.
BuildRequestNoSystem(s, history) ==
    [url      |-> <<IF s.connectionType = "cloud" THEN s.cloudEndpoint
                    ELSE s.localEndpoint, "/chat/completions">>,
     headers  |-> {<<"Content-Type", "application/json">>}
                    \cup (IF s.connectionType = "cloud" /\ s.apiKey # <<>>
                          THEN {<<"Authorization", <<"Bearer ">> \o s.apiKey>>}
                          ELSE {}),
     model    |-> IF s.connectionType = "cloud" THEN s.model ELSE s.localModel,
     messages |-> [i \in DOMAIN history |->
                    [role |-> history[i].role, content |-> history[i].content]],
     stream   |-> s.streaming]

BuildRequestKeyAlways(s, history) ==
    [url      |-> <<IF s.connectionType = "cloud" THEN s.cloudEndpoint
                    ELSE s.localEndpoint, "/chat/completions">>,
     headers  |-> {<<"Content-Type", "application/json">>}
                    \cup (IF s.apiKey # <<>>
                          THEN {<<"Authorization", <<"Bearer ">> \o s.apiKey>>}
                          ELSE {}),
     model    |-> IF s.connectionType = "cloud" THEN s.model ELSE s.localModel,
     messages |-> <<[role |-> "system", content |-> s.systemPrompt]>>
                    \o [i \in DOMAIN history |->
                            [role |-> history[i].role, content |-> history[i].content]],
     stream   |-> s.streaming]

BuildRequest(s, history) ==
    [url      |-> <<IF s.connectionType = "cloud" THEN s.cloudEndpoint
                    ELSE s.localEndpoint, "/chat/completions">>,
     headers  |-> {<<"Content-Type", "application/json">>}
                    \cup (IF s.connectionType = "cloud" /\ s.apiKey # <<>>
                          THEN {<<"Authorization", <<"Bearer ">> \o s.apiKey>>}
                          ELSE {}),
     model    |-> IF s.connectionType = "cloud" THEN s.model ELSE s.localModel,
     messages |-> <<[role |-> "system", content |-> s.systemPrompt]>>
                    \o [i \in DOMAIN history |->
                            [role |-> history[i].role, content |-> history[i].content]],
     stream   |-> s.streaming]

-----------------------------------------------------------------------------
(* Initial state: the first render of App over what an earlier run left in
   localStorage *)

\* a chat an earlier run stored: one completed turn
OldChat ==
    [id |-> -1, title |-> <<"o", "l", "d">>,
     messages |-> << [id |-> -2, role |-> "user", content |-> <<"o", "l", "d">>,
                      timestamp |-> -1],
                     [id |-> -3, role |-> "assistant", content |-> <<"A">>,
                      timestamp |-> 0] >>,
     createdAt |-> -1]

\* what an earlier run can leave behind: nothing (first start); an emptied
\* collection with the id of its last active chat; one chat, active
InitStores ==
    { [chats |-> Missing, settings |-> Missing, active |-> Null],
      [chats |-> Stored(StringifyChats(<<>>)),
       settings |-> Stored(StringifySettings(DefaultSettings)),
       active |-> OldChat.id],
      [chats |-> Stored(StringifyChats(<<OldChat>>)),
       settings |-> Stored(StringifySettings(
                        [DefaultSettings EXCEPT !.apiKey = <<"s", "k">>,
                                                !.streaming = FALSE])),
       active |-> OldChat.id] }

\* no call of MessageContent is under way
NoRender ==
    /\ messageContent = <<>>
    /\ parts = <<>>
    /\ lastIndex = 0
    /\ matching = FALSE

Init ==
    /\ mounted = FALSE
    /\ chats = <<>>
    /\ activeChat = Null
    /\ inputValue = <<>>
    /\ isLoading = FALSE
    /\ settings = DefaultSettings
    /\ streamingMessage = <<>>
    /\ turns = {}
    /\ \E st \in InitStores :
        /\ lsChats = st.chats
        /\ lsSettings = st.settings
        /\ lsActive = st.active
    /\ nextId = 1
    /\ clock = 1
    /\ emitted = <<>>
    /\ NoRender
    /\ loadEffect = <<>>

\* a chat an earlier run stored while the request of its second turn was
\* outstanding: the page was closed before the reply
InterruptedChat ==
    [id |-> -1, title |-> <<"o", "l", "d">>,
     messages |-> << [id |-> -2, role |-> "user", content |-> <<"o", "l", "d">>,
                      timestamp |-> -2],
                     [id |-> -3, role |-> "assistant", content |-> <<"A">>,
                      timestamp |-> -1],
                     [id |-> -4, role |-> "user", content |-> <<"h", "i">>,
                      timestamp |-> 0] >>,
     createdAt |-> -2]

\* the first render of App over the store of a run closed during a turn
ReloadInit ==
    /\ mounted = FALSE
    /\ chats = <<>>
    /\ activeChat = Null
    /\ inputValue = <<>>
    /\ isLoading = FALSE
    /\ settings = DefaultSettings
    /\ streamingMessage = <<>>
    /\ turns = {}
    /\ lsChats = Stored(StringifyChats(<<InterruptedChat>>))
    /\ lsSettings = Stored(StringifySettings(DefaultSettings))
    /\ lsActive = InterruptedChat.id
    /\ nextId = 1
    /\ clock = 1
    /\ emitted = <<>>
    /\ NoRender
    /\ loadEffect = <<>>

-----------------------------------------------------------------------------
(* Persistence effects: each runs after a render in which its dependency
   changed *)

\* useEffect(() => localStorage.setItem('loanlens-chats', ...), [chats]); the
\* first is a variant that writes the chats of the render before
PersistChatsStale == lsChats' = Stored(StringifyChats(chats))

PersistChats == lsChats' = Stored(StringifyChats(chats'))

\* useEffect(() => localStorage.setItem('loanlens-settings', ...), [settings])
PersistSettings == lsSettings' = Stored(StringifySettings(settings'))

\* useEffect(() => { if (activeChat) localStorage.setItem(...) }, [activeChat])
PersistActive ==
    lsActive' = IF activeChat' # activeChat /\ activeChat' # Null
                THEN activeChat' ELSE lsActive

\* ids not yet handed out, less one kept for the reply of each turn in flight
IdsLeft == MaxIds - (nextId - 1) - Cardinality(turns)

-----------------------------------------------------------------------------
(* Startup *)

\* the mount effects: load from localStorage, then the persistence effects of
\* the first render and of the render the load causes
Mount ==
    /\ ~mounted
    /\ mounted' = TRUE
    /\ IF lsChats # Missing
       THEN LET parsedChats == ParseChats(lsChats[1])
            IN  /\ chats' = parsedChats
                /\ activeChat' =
                    IF lsActive # Null
                       /\ \E i \in DOMAIN parsedChats : parsedChats[i].id = lsActive
                    THEN lsActive
                    ELSE IF Len(parsedChats) > 0 THEN parsedChats[1].id
                    ELSE activeChat
       ELSE UNCHANGED <<chats, activeChat>>
    /\ settings' = IF lsSettings # Missing
                   THEN MergeSettings(settings, lsSettings[1])
                   ELSE settings
    /\ PersistChats
    /\ PersistSettings
    /\ PersistActive
    /\ UNCHANGED <<inputValue, isLoading, streamingMessage, turns, nextId, clock,
                   emitted, parser, loadEffect>>

-----------------------------------------------------------------------------
(* Startup, render by render: the effects of the first render, then the render
   the load effect causes *)

\* a second stored chat, older than OldChat and without messages
OlderChat ==
    [id |-> -5, title |-> <<"New Chat">>, messages |-> <<>>, createdAt |-> -5]

\* the id of a chat that was deleted in an earlier run
StaleId == -9

\* what an earlier run can leave behind: nothing; two chats with the second
\* active; two chats and the id of a deleted chat; an emptied collection and
\* the id of a deleted chat
StartupStores ==
    { [chats |-> Missing, settings |-> Missing, active |-> Null],
      [chats |-> Stored(StringifyChats(<<OldChat, OlderChat>>)),
       settings |-> Stored(StringifySettings(DefaultSettings)),
       active |-> OlderChat.id],
      [chats |-> Stored(StringifyChats(<<OldChat, OlderChat>>)),
       settings |-> Stored(StringifySettings(DefaultSettings)),
       active |-> StaleId],
      [chats |-> Stored(StringifyChats(<<>>)),
       settings |-> Stored(StringifySettings(DefaultSettings)),
       active |-> StaleId] }

StartupInit ==
    /\ mounted = FALSE
    /\ chats = <<>>
    /\ activeChat = Null
    /\ inputValue = <<>>
    /\ isLoading = FALSE
    /\ settings = DefaultSettings
    /\ streamingMessage = <<>>
    /\ turns = {}
    /\ \E st \in StartupStores :
        /\ lsChats = st.chats
        /\ lsSettings = st.settings
        /\ lsActive = st.active
    /\ nextId = 1
    /\ clock = 1
    /\ emitted = <<>>
    /\ NoRender
    /\ loadEffect = <<>>

\* the effects of the first render, in the order of their declaration: the
\* load effect reads the three keys and queues its updates, then the persist
\* effects write the state of the first render. The first is a variant in which
\* the persist effects run before the load effect.
MountEffectsPersistFirst ==
    /\ ~mounted
    /\ loadEffect = <<>>
    /\ lsChats' = Stored(StringifyChats(chats))
    /\ lsSettings' = Stored(StringifySettings(settings))
    /\ lsActive' = IF activeChat # Null THEN activeChat ELSE lsActive
    /\ loadEffect' = <<[savedChats |-> lsChats', savedSettings |-> lsSettings',
                   savedActiveChat |-> lsActive']>>
    /\ UNCHANGED <<parser, mounted, chats, activeChat, inputValue, isLoading, settings,
                   streamingMessage, turns, nextId, clock, emitted>>

MountEffects ==
    /\ ~mounted
    /\ loadEffect = <<>>
    /\ loadEffect' = <<[savedChats |-> lsChats, savedSettings |-> lsSettings,
                   savedActiveChat |-> lsActive]>>
    /\ lsChats' = Stored(StringifyChats(chats))
    /\ lsSettings' = Stored(StringifySettings(settings))
    /\ lsActive' = IF activeChat # Null THEN activeChat ELSE lsActive
    /\ UNCHANGED <<parser, mounted, chats, activeChat, inputValue, isLoading, settings,
                   streamingMessage, turns, nextId, clock, emitted>>

\* the render with the updates the load effect queued, and the persist
\* effects whose dependency it changed
Rerender ==
    /\ ~mounted
    /\ loadEffect # <<>>
    /\ mounted' = TRUE
    /\ LET savedChats == loadEffect[1].savedChats
           savedSettings == loadEffect[1].savedSettings
           savedActiveChat == loadEffect[1].savedActiveChat
       IN  /\ IF savedChats # Missing
              THEN LET parsedChats == ParseChats(savedChats[1])
                   IN  /\ chats' = parsedChats
                       /\ activeChat' =
                            IF savedActiveChat # Null
                               /\ \E i \in DOMAIN parsedChats :
                                        parsedChats[i].id = savedActiveChat
                            THEN savedActiveChat
                            ELSE IF Len(parsedChats) > 0 THEN parsedChats[1].id
                            ELSE activeChat
                       /\ PersistChats
              ELSE UNCHANGED <<chats, activeChat, lsChats>>
           /\ IF savedSettings # Missing
              THEN /\ settings' = MergeSettings(settings, savedSettings[1])
                   /\ PersistSettings
              ELSE UNCHANGED <<settings, lsSettings>>
    /\ PersistActive
    /\ UNCHANGED <<parser, loadEffect, inputValue, isLoading, streamingMessage, turns,
                   nextId, clock, emitted>>

-----------------------------------------------------------------------------
(* User actions *)

\* onChange of the input box, or a quick prompt: setInputValue(v)
SetInput(v) ==
    /\ mounted
    /\ inputValue' = v
    /\ UNCHANGED <<parser, loadEffect, mounted, chats, activeChat, isLoading, settings,
                   streamingMessage, turns, lsChats, lsSettings, lsActive, nextId,
                   clock, emitted>>

\* SettingsModal.handleSave -> onSave = setSettings
SaveSettings(s) ==
    /\ mounted
    /\ settings' = s
    /\ PersistSettings
    /\ UNCHANGED <<parser, loadEffect, mounted, chats, activeChat, inputValue, isLoading,
                   streamingMessage, turns, lsChats, lsActive, nextId, clock,
                   emitted>>

\* onClick of a chat item: setActiveChat(chat.id)
SelectChat(id) ==
    /\ mounted
    /\ \E i \in DOMAIN chats : chats[i].id = id
    /\ activeChat' = id
    /\ PersistActive
    /\ UNCHANGED <<parser, loadEffect, mounted, chats, inputValue, isLoading, settings,
                   streamingMessage, turns, lsChats, lsSettings, nextId, clock,
                   emitted>>

\* createNewChat; the first is a variant that adds the chat at the end
createNewChatAtEnd ==
    /\ mounted
    /\ IdsLeft >= 1
    /\ LET newChat == [id |-> nextId, title |-> <<"New Chat">>, messages |-> <<>>,
                       createdAt |-> clock]
       IN  /\ chats' = chats \o <<newChat>>
           /\ activeChat' = newChat.id
    /\ inputValue' = <<>>
    /\ nextId' = nextId + 1
    /\ clock' = clock + 1
    /\ PersistChats
    /\ PersistActive
    /\ UNCHANGED <<parser, loadEffect, mounted, isLoading, settings, streamingMessage, turns,
                   lsSettings, emitted>>

createNewChat ==
    /\ mounted
    /\ IdsLeft >= 1
    /\ LET newChat == [id |-> nextId, title |-> <<"New Chat">>, messages |-> <<>>,
                       createdAt |-> clock]
       IN  /\ chats' = <<newChat>> \o chats
           /\ activeChat' = newChat.id
    /\ inputValue' = <<>>
    /\ nextId' = nextId + 1
    /\ clock' = clock + 1
    /\ PersistChats
    /\ PersistActive
    /\ UNCHANGED <<parser, loadEffect, mounted, isLoading, settings, streamingMessage, turns,
                   lsSettings, emitted>>

\* the delete button of a chat item: deleteChat(chat.id)
deleteChat(chatId) ==
    /\ mounted
    /\ \E i \in DOMAIN chats : chats[i].id = chatId
    /\ chats' = RemoveChat(chats, chatId)
    /\ activeChat' = NextActive(chats, activeChat, chatId)
    /\ PersistChats
    /\ PersistActive
    /\ UNCHANGED <<parser, loadEffect, mounted, inputValue, isLoading, settings, streamingMessage,
                   turns, lsSettings, nextId, clock, emitted>>

-----------------------------------------------------------------------------
(* sendMessage: the synchronous part, up to the fetch call *)

\* a sendMessage invocation suspended at an await: its closure (chatId, the
\* settings of the render it was called in), where it waits, its local
\* assistantContent, the chunks of the response body still to be read, the
\* request it issued, and what localStorage held for the chats when fetch was
\* called
NewTurn(userMessage, chatId, history) ==
    [id               |-> userMessage.id,
     chatId           |-> chatId,
     settings         |-> settings,
     pc               |-> "fetch",
     assistantContent |-> <<>>,
     body             |-> <<>>,
     request          |-> BuildRequest(settings, history),
     storedAtFetch    |-> lsChats]

\* a call that passed the entry check
AcceptTurn ==
    LET needChat == activeChat = Null
        newChat == [id |-> nextId, title |-> Truncate(inputValue),
                    messages |-> <<>>, createdAt |-> clock]
        chatId == IF needChat THEN newChat.id ELSE activeChat
        base == IF needChat THEN <<newChat>> \o chats ELSE chats
        used == IF needChat THEN 2 ELSE 1
        userMessage == [id |-> nextId + used - 1, role |-> "user",
                        content |-> inputValue, timestamp |-> clock + used - 1]
        chatIndex == FindIndex(base, chatId)
        updatedChats ==
            IF chatIndex # NotFound
            THEN [base EXCEPT ![chatIndex] =
                    [@ EXCEPT !.messages = Append(@, userMessage),
                              !.title = IF Len(base[chatIndex].messages) = 0
                                        THEN Truncate(inputValue) ELSE @]]
            ELSE base
    IN  /\ IdsLeft >= used + 1
        /\ activeChat' = chatId
        /\ inputValue' = <<>>
        /\ streamingMessage' = <<>>
        /\ emitted' = <<>>
        /\ IF chatIndex # NotFound
           THEN /\ chats' = updatedChats
                /\ isLoading' = TRUE
                /\ turns' = turns \cup
                      {NewTurn(userMessage, chatId, updatedChats[chatIndex].messages)}
                /\ nextId' = nextId + used
                /\ clock' = clock + used
           ELSE \* updatedChats[-1].messages throws inside try: the catch block runs
                /\ chats' = AppendTo(updatedChats, chatId,
                                [id |-> nextId + used, role |-> "assistant",
                                 content |-> ErrorContent(<<"TypeError">>),
                                 timestamp |-> clock + used])
                /\ isLoading' = FALSE
                /\ turns' = turns
                /\ nextId' = nextId + used + 1
                /\ clock' = clock + used + 1
        /\ PersistChats
        /\ PersistActive
        /\ UNCHANGED <<parser, loadEffect, mounted, settings, lsSettings>>

\* the send button or Enter
sendMessage ==
    /\ mounted
    /\ IF Rejected(inputValue, isLoading) THEN UNCHANGED vars ELSE AcceptTurn

-----------------------------------------------------------------------------
(* sendMessage: the continuations after each await *)

\* the terminal commit and the two lines after the try statement. The first is
\* a variant that leaves the streaming buffer as it is.
CommitKeepsBuffer(t, content) ==
    /\ chats' = AppendTo(chats, t.chatId,
                    [id |-> nextId, role |-> "assistant", content |-> content,
                     timestamp |-> clock])
    /\ isLoading' = FALSE
    /\ turns' = turns \ {t}
    /\ nextId' = nextId + 1
    /\ clock' = clock + 1
    /\ PersistChats
    /\ UNCHANGED <<parser, loadEffect, mounted, activeChat, inputValue, settings, streamingMessage,
                   lsSettings, lsActive, emitted>>

\* a variant of the commit that looks the chat up by the active-chat pointer
CommitToActive(t, content) ==
    /\ chats' = AppendTo(chats, activeChat,
                    [id |-> nextId, role |-> "assistant", content |-> content,
                     timestamp |-> clock])
    /\ isLoading' = FALSE
    /\ streamingMessage' = <<>>
    /\ turns' = turns \ {t}
    /\ nextId' = nextId + 1
    /\ clock' = clock + 1
    /\ PersistChats
    /\ UNCHANGED <<parser, loadEffect, mounted, activeChat, inputValue, settings, lsSettings,
                   lsActive, emitted>>

Commit(t, content) ==
    /\ chats' = AppendTo(chats, t.chatId,
                    [id |-> nextId, role |-> "assistant", content |-> content,
                     timestamp |-> clock])
    /\ isLoading' = FALSE
    /\ streamingMessage' = <<>>
    /\ turns' = turns \ {t}
    /\ nextId' = nextId + 1
    /\ clock' = clock + 1
    /\ PersistChats
    /\ UNCHANGED <<parser, loadEffect, mounted, activeChat, inputValue, settings,
                   lsSettings, lsActive, emitted>>

\* the catch block
Fail(t, reason) == Commit(t, ErrorContent(reason))

\* await fetch(...) rejects
FetchFails(t) ==
    /\ t.pc = "fetch"
    /\ Fail(t, <<"Failed to fetch">>)

\* await fetch(...) resolves with a response of the given status, whose body
\* (when the turn reads it as an event stream) will be the given stream. The
\* first is a variant that reads the streaming flag of the settings of the
\* latest render.
FetchRespondsLatest(t, status, stream) ==
    /\ t.pc = "fetch"
    /\ IF ~IsOk(status)
       THEN Fail(t, ApiErrorMessage(status))
       ELSE /\ turns' = (turns \ {t}) \cup
                    {IF settings.streaming
                     THEN [t EXCEPT !.pc = "read", !.body = stream]
                     ELSE [t EXCEPT !.pc = "json"]}
            /\ UNCHANGED <<parser, loadEffect, mounted, chats, activeChat, inputValue, isLoading,
                           settings, streamingMessage, lsChats, lsSettings,
                           lsActive, nextId, clock, emitted>>

FetchResponds(t, status, stream) ==
    /\ t.pc = "fetch"
    /\ IF ~IsOk(status)
       THEN Fail(t, ApiErrorMessage(status))
       ELSE /\ turns' = (turns \ {t}) \cup
                    {IF t.settings.streaming
                     THEN [t EXCEPT !.pc = "read", !.body = stream]
                     ELSE [t EXCEPT !.pc = "json"]}
            /\ UNCHANGED <<parser, loadEffect, mounted, chats, activeChat, inputValue, isLoading,
                           settings, streamingMessage, lsChats, lsSettings,
                           lsActive, nextId, clock, emitted>>

\* await reader.read() resolves with the next chunk of the body. The first is
\* a variant that also writes the text accumulated so far into the stored
\* chats.
ReadChunkPersisting(t) ==
    /\ t.pc = "read"
    /\ t.body # <<>>
    /\ \E lines \in {Lines(Head(t.body))} :
       \E st \in {ProcessLines(lines, [content |-> t.assistantContent,
                                        emits |-> <<>>])} :
           /\ turns' = (turns \ {t}) \cup
                    {[t EXCEPT !.assistantContent = st.content, !.body = Tail(@)]}
           /\ streamingMessage' = IF st.emits # <<>> THEN st.emits[Len(st.emits)]
                                  ELSE streamingMessage
           /\ emitted' = emitted \o st.emits
           /\ lsChats' = Stored(StringifyChats(
                    AppendTo(chats, t.chatId,
                        [id |-> nextId, role |-> "assistant", content |-> st.content,
                         timestamp |-> clock])))
    /\ UNCHANGED <<parser, loadEffect, mounted, chats, activeChat, inputValue, isLoading, settings,
                   lsSettings, lsActive, nextId, clock>>

ReadChunk(t) ==
    /\ t.pc = "read"
    /\ t.body # <<>>
    /\ \E lines \in {Lines(Head(t.body))} :
       \E st \in {ProcessLines(lines, [content |-> t.assistantContent,
                                        emits |-> <<>>])} :
           /\ turns' = (turns \ {t}) \cup
                    {[t EXCEPT !.assistantContent = st.content, !.body = Tail(@)]}
           /\ streamingMessage' = IF st.emits # <<>> THEN st.emits[Len(st.emits)]
                                  ELSE streamingMessage
           /\ emitted' = emitted \o st.emits
    /\ UNCHANGED <<parser, loadEffect, mounted, chats, activeChat, inputValue, isLoading, settings,
                   lsChats, lsSettings, lsActive, nextId, clock>>

\* await reader.read() resolves with done: the body is exhausted
ReadDone(t) ==
    /\ t.pc = "read"
    /\ t.body = <<>>
    /\ Commit(t, t.assistantContent)

\* await reader.read() rejects
ReadFails(t) ==
    /\ t.pc = "read"
    /\ Fail(t, <<"network error">>)

\* await response.json() settles on the given body
JsonSettles(t, body) ==
    /\ t.pc = "json"
    /\ LET parsed == JSONParse(body)
       IN  IF parsed.ok
           THEN Commit(t, MessageContentOf(parsed.value))
           ELSE Fail(t, <<"Unexpected token">>)

-----------------------------------------------------------------------------

Next ==
    \/ Mount
    \/ \E v \in Inputs : SetInput(v)
    \/ \E s \in SettingsChoices : SaveSettings(s)
    \/ \E i \in DOMAIN chats : SelectChat(chats[i].id)
    \/ createNewChat
    \/ \E i \in DOMAIN chats : deleteChat(chats[i].id)
    \/ sendMessage
    \/ \E t \in turns : FetchFails(t)
    \/ \E t \in turns, status \in Statuses, stream \in Streams :
            FetchResponds(t, status, stream)
    \/ \E t \in turns : ReadChunk(t)
    \/ \E t \in turns : ReadDone(t)
    \/ \E t \in turns : ReadFails(t)
    \/ \E t \in turns, body \in Bodies : JsonSettles(t, body)

Spec == Init /\ [][Next]_vars

\* prompts around the title limit: of exactly 50 and of 51 characters
LongInputs ==
    { [i \in 1..TitleLen |-> "x"], [i \in 1..(TitleLen + 1) |-> "x"] }

\* the application driven with prompts around the title limit, the settings
\* left as loaded
TitleNext ==
    \/ Mount
    \/ \E v \in LongInputs : SetInput(v)
    \/ \E i \in DOMAIN chats : SelectChat(chats[i].id)
    \/ createNewChat
    \/ \E i \in DOMAIN chats : deleteChat(chats[i].id)
    \/ sendMessage
    \/ \E t \in turns : FetchFails(t)
    \/ \E t \in turns, status \in Statuses, stream \in Streams :
            FetchResponds(t, status, stream)
    \/ \E t \in turns : ReadChunk(t)
    \/ \E t \in turns : ReadDone(t)
    \/ \E t \in turns : ReadFails(t)
    \/ \E t \in turns, body \in Bodies : JsonSettles(t, body)

TitleSpec == Init /\ [][TitleNext]_vars

\* the application answered with streams of one well-formed line a chunk
StreamNext ==
    \/ Mount
    \/ \E v \in Inputs : SetInput(v)
    \/ \E i \in DOMAIN chats : SelectChat(chats[i].id)
    \/ createNewChat
    \/ \E i \in DOMAIN chats : deleteChat(chats[i].id)
    \/ sendMessage
    \/ \E t \in turns : FetchFails(t)
    \/ \E t \in turns, status \in Statuses, stream \in LineStreams :
            FetchResponds(t, status, stream)
    \/ \E t \in turns : ReadChunk(t)
    \/ \E t \in turns : ReadDone(t)
    \/ \E t \in turns : ReadFails(t)
    \/ \E t \in turns, body \in Bodies : JsonSettles(t, body)

StreamSpec == Init /\ [][StreamNext]_vars

\* the bytes of an event stream with the deltas A and B
EventBytes == <<"data: ", JsonDeltaA, "\n", "\n", "data: ", JsonDeltaB, "\n", "\n">>

\* the ways reader.read() may deliver EventBytes: at once, an event a chunk,
\* cut between two line feeds, cut inside the second data line
ChunkStreams ==
    { << EventBytes >>,
      << <<"data: ", JsonDeltaA, "\n", "\n">>, <<"data: ", JsonDeltaB, "\n", "\n">> >>,
      << <<"data: ", JsonDeltaA, "\n">>, <<"\n", "data: ", JsonDeltaB, "\n", "\n">> >>,
      << <<"data: ", JsonDeltaA, "\n", "\n", "data: ">>, <<JsonDeltaB, "\n", "\n">> >> }

ChunkNext ==
    \/ Mount
    \/ \E v \in Inputs : SetInput(v)
    \/ \E i \in DOMAIN chats : SelectChat(chats[i].id)
    \/ createNewChat
    \/ \E i \in DOMAIN chats : deleteChat(chats[i].id)
    \/ sendMessage
    \/ \E t \in turns : FetchFails(t)
    \/ \E t \in turns, status \in Statuses, stream \in ChunkStreams :
            FetchResponds(t, status, stream)
    \/ \E t \in turns : ReadChunk(t)
    \/ \E t \in turns : ReadDone(t)
    \/ \E t \in turns : ReadFails(t)
    \/ \E t \in turns, body \in Bodies : JsonSettles(t, body)

ChunkSpec == Init /\ [][ChunkNext]_vars

\* startup render by render, and the actions on the list of chats
StartupNext ==
    \/ MountEffects
    \/ Rerender
    \/ \E v \in Inputs : SetInput(v)
    \/ \E i \in DOMAIN chats : SelectChat(chats[i].id)
    \/ createNewChat
    \/ \E i \in DOMAIN chats : deleteChat(chats[i].id)

StartupSpec == StartupInit /\ [][StartupNext]_vars

\* the application started over the store of a run closed during a turn
ReloadSpec == ReloadInit /\ [][Next]_vars

\* a continuation of a suspended sendMessage: the network answers, the body
\* delivers its next chunk, ends or fails
NetworkStep ==
    \E t \in turns :
        \/ FetchFails(t)
        \/ \E status \in Statuses, stream \in Streams : FetchResponds(t, status, stream)
        \/ ReadChunk(t)
        \/ ReadDone(t)
        \/ ReadFails(t)
        \/ \E body \in Bodies : JsonSettles(t, body)

\* the network eventually answers every request and every body eventually ends
FairSpec == Spec /\ WF_vars(NetworkStep)

-----------------------------------------------------------------------------
(* MessageContent: the split of a message into text and code segments *)

\* the texts given to MessageContent are made of at most MaxPieces pieces: a
\* run of three backticks, a backtick, a word character, a line feed, a space
MaxPieces == 7

\* the backtick character, and the fence of three
Backtick == "<backtick>"
Fence == <<Backtick, Backtick, Backtick>>

Pieces == { Fence, <<Backtick>>, <<"c">>, <<"\n">>, <<" ">> }

RECURSIVE Flatten(_)
Flatten(ps) == IF ps = <<>> THEN <<>> ELSE Head(ps) \o Flatten(Tail(ps))

Contents == {Flatten(ps) : ps \in UNION {[1..n -> Pieces] : n \in 0..MaxPieces}}

\* \w, among the characters of the pieces
WordChars == {"c"}

\* content.slice(from, to), offsets counted from 0
Slice(text, from, to) == SubSeq(text, from + 1, to)

Min(S) == CHOOSE x \in S : \A y \in S : x <= y

\* ``` at position i (counted from 1)
FenceAt(text, i) == i + 2 <= Len(text) /\ \A d \in 0..2 : text[i + d] = Backtick

\* (\w*) after a fence at i: the position after the longest run of word
\* characters
TagEnd(text, i) ==
    Min({j \in (i + 3)..(Len(text) + 1) : j = Len(text) + 1 \/ text[j] \notin WordChars})

\* ([\s\S]*?)```: the fences that can close a block opened at i
Closings(text, i) == {k \in (TagEnd(text, i) + 1)..Len(text) : FenceAt(text, k)}

\* /```(\w*)\n([\s\S]*?)```/ matches at position i
MatchesAt(text, i) ==
    /\ FenceAt(text, i)
    /\ TagEnd(text, i) <= Len(text)
    /\ text[TagEnd(text, i)] = "\n"
    /\ Closings(text, i) # {}

\* the match at position i: index, the two groups, and the length of match[0]
MatchAt(text, i) ==
    LET j == TagEnd(text, i)
        k == Min(Closings(text, i))
    IN  [index  |-> i - 1,
         tag    |-> SubSeq(text, i + 3, j - 1),
         body   |-> SubSeq(text, j + 1, k - 1),
         length |-> k + 3 - i]

\* codeRegex.exec(content) with the regex's lastIndex at from: <<>> for null,
\* <<match>> for the leftmost match at or after from
Exec(text, from) ==
    LET hits == {i \in (from + 1)..Len(text) : MatchesAt(text, i)}
    IN  IF hits = {} THEN <<>> ELSE <<MatchAt(text, Min(hits))>>

TextPart(text) == [type |-> "text", content |-> text]

\* match[1] || 'code'
CodePart(tag, body) ==
    [type |-> "code",
     language |-> IF tag # <<>> THEN tag ELSE <<"c", "o", "d", "e">>,
     content |-> body]

\* the variables of App
app == <<mounted, chats, activeChat, inputValue, isLoading, settings,
         streamingMessage, turns, lsChats, lsSettings, lsActive, nextId,
         clock, emitted, loadEffect>>

\* a call of MessageContent with some content, before the first exec
ParseInit ==
    /\ mounted = FALSE
    /\ chats = <<>>
    /\ activeChat = Null
    /\ inputValue = <<>>
    /\ isLoading = FALSE
    /\ settings = DefaultSettings
    /\ streamingMessage = <<>>
    /\ turns = {}
    /\ lsChats = Missing
    /\ lsSettings = Missing
    /\ lsActive = Null
    /\ nextId = 1
    /\ clock = 1
    /\ emitted = <<>>
    /\ loadEffect = <<>>
    /\ messageContent \in Contents
    /\ parts = <<>>
    /\ lastIndex = 0
    /\ matching = TRUE

\* one iteration of the while loop: exec found a match. The first is a variant
\* that does not push the text before the match.
PushMatchOnly ==
    /\ matching
    /\ \E found \in {Exec(messageContent, lastIndex)} :
        /\ found # <<>>
        /\ LET match == found[1]
           IN  /\ parts' = Append(parts, CodePart(match.tag, match.body))
               /\ lastIndex' = match.index + match.length
    /\ UNCHANGED <<app, messageContent, matching>>

PushMatch ==
    /\ matching
    /\ \E found \in {Exec(messageContent, lastIndex)} :
        /\ found # <<>>
        /\ LET match == found[1]
               before == IF match.index > lastIndex
                         THEN <<TextPart(Slice(messageContent, lastIndex, match.index))>>
                         ELSE <<>>
           IN  /\ parts' = (parts \o before) \o <<CodePart(match.tag, match.body)>>
               /\ lastIndex' = match.index + match.length
    /\ UNCHANGED <<app, messageContent, matching>>

\* exec returned null: the loop ends, the rest of the content is pushed, and
\* the whole content if nothing was pushed. The first is a variant without the
\* last push.
PushRestOnly ==
    /\ matching
    /\ Exec(messageContent, lastIndex) = <<>>
    /\ parts' = IF lastIndex < Len(messageContent)
                THEN Append(parts, TextPart(Slice(messageContent, lastIndex,
                                                  Len(messageContent))))
                ELSE parts
    /\ matching' = FALSE
    /\ UNCHANGED <<app, messageContent, lastIndex>>

PushRest ==
    /\ matching
    /\ Exec(messageContent, lastIndex) = <<>>
    /\ LET rest == IF lastIndex < Len(messageContent)
                   THEN Append(parts, TextPart(Slice(messageContent, lastIndex,
                                                     Len(messageContent))))
                   ELSE parts
       IN  parts' = IF Len(rest) = 0 THEN <<TextPart(messageContent)>> ELSE rest
    /\ matching' = FALSE
    /\ UNCHANGED <<app, messageContent, lastIndex>>

ParseNext ==
    \/ PushMatch
    \/ PushRest

ParseSpec == ParseInit /\ [][ParseNext]_vars

-----------------------------------------------------------------------------
(* Properties of the session engine *)

ChatIds(cs) == {cs[i].id : i \in DOMAIN cs}

Blank(text) == \A i \in DOMAIN text : text[i] \in Whitespace

\* C1: in every reachable state the active-chat pointer is null or the id of a
\* chat of the collection, whatever was created, deleted, selected or sent, also
\* while a turn is in flight.
C1_ActivePointerValid == activeChat = Null \/ activeChat \in ChatIds(chats)

\* C1 witness: a turn is in flight, its chat has been deleted, and the pointer
\* refers to another chat that exists.
C1_Witness ==
    /\ activeChat # Null
    /\ \E t \in turns : t.chatId \notin ChatIds(chats) /\ t.chatId # activeChat

\* C2: at most one completion request is outstanding, whichever chat is active,
\* and the in-flight flag is set exactly while one is.
C2_SingleFlight == Cardinality(turns) <= 1 /\ (isLoading <=> turns # {})

\* C2 witness: a turn is in flight, the user has moved to another chat and has
\* typed a prompt there.
C2_Witness ==
    \E t \in turns : activeChat # t.chatId /\ activeChat # Null /\ ~Blank(inputValue)

\* C3: a sendMessage call made with an empty or whitespace-only input, or while
\* a turn is in flight, changes nothing: not the chats, the pointer, the flag,
\* the streaming buffer, the outstanding requests or the store.
C3_RejectedSendIsNoOp ==
    [][(Blank(inputValue) \/ isLoading) /\ sendMessage
         => UNCHANGED <<chats, activeChat, isLoading, streamingMessage, turns,
                        lsChats, lsActive, nextId>>]_vars

\* C3 witness: a turn is in flight and the input box holds a prompt, so a send
\* is refused for the in-flight reason alone.
C3_Witness == isLoading /\ turns # {} /\ ~Blank(inputValue)

\* the chat of cs with the given id
ChatById(cs, id) == cs[CHOOSE i \in DOMAIN cs : cs[i].id = id]

\* the turn t leaves the set of turns in flight in this step
TurnEnds(t) == \A u \in turns' : u.id # t.id

\* in this step the chat id, whose last message is the user message of turn t,
\* gains exactly one message, an assistant message, at the end of its list
GainsReply(id, t) ==
    /\ id \in ChatIds(chats)
    /\ id \in ChatIds(chats')
    /\ LET old == ChatById(chats, id).messages
           new == ChatById(chats', id).messages
       IN  /\ Len(old) >= 1
           /\ old[Len(old)].id = t.id
           /\ old[Len(old)].role = "user"
           /\ Len(new) = Len(old) + 1
           /\ SubSeq(new, 1, Len(old)) = old
           /\ new[Len(new)].role = "assistant"

\* every chat but id is the same before and after this step, in the same order
OthersUnchanged(id) ==
    /\ Len(chats') = Len(chats)
    /\ \A i \in DOMAIN chats : chats[i].id # id => chats'[i] = chats[i]

\* the assistant messages of a chat
Replies(c) == SelectSeq(c.messages, LAMBDA m : m.role = "assistant")

\* no chat has more assistant messages after this step than before
NoReplyGained ==
    \A id \in ChatIds(chats') :
        IF id \in ChatIds(chats)
        THEN Replies(ChatById(chats', id)) = Replies(ChatById(chats, id))
        ELSE Replies(ChatById(chats', id)) = <<>>

\* C4 as claimed: every accepted turn ends with exactly one assistant message
\* appended to the chat that received its user message, under every
\* interleaving of user actions; no other step appends an assistant message and
\* no delta is emitted once the turn has ended.
C4_Original ==
    [][/\ \A t \in turns : TurnEnds(t) => GainsReply(t.chatId, t)
       /\ (mounted /\ \A t \in turns : ~TurnEnds(t)) => NoReplyGained
       /\ emitted' # emitted => (emitted' = <<>> \/ \E t \in turns : ~TurnEnds(t))
      ]_vars

\* C4 as amended: a turn ends with exactly one assistant message appended to
\* the chat that received its user message when that chat is still in the
\* collection, every other chat unchanged; when the chat has been deleted while
\* the turn was in flight the turn ends with no message appended anywhere. No
\* other step appends an assistant message and no delta is emitted once the
\* turn has ended.
C4_TerminalCommit ==
    [][/\ \A t \in turns : TurnEnds(t) =>
            IF t.chatId \in ChatIds(chats)
            THEN GainsReply(t.chatId, t) /\ OthersUnchanged(t.chatId)
            ELSE chats' = chats
       /\ (mounted /\ \A t \in turns : ~TurnEnds(t)) => NoReplyGained
       /\ emitted' # emitted => (emitted' = <<>> \/ \E t \in turns : ~TurnEnds(t))
      ]_vars

\* C4 witness: a streaming turn has emitted deltas and has ended after its chat
\* was deleted: nothing is in flight and no chat is left to hold a reply.
C4_Witness == mounted /\ turns = {} /\ ~isLoading /\ emitted # <<>> /\ chats = <<>>

\* the warning template around a failure reason, as the claim reads it
WarningWith(reason) ==
    <<"<warning> ", "Error", ": ">> \o reason
        \o <<"\n\n", "Please check your API settings and try again.">>

NotOk(status) == status < 200 \/ status > 299

\* this step is a failure of turn t for the given reason: fetch rejects, the
\* status is not OK, a body read rejects, or the body is no JSON document
FailureStep(t, reason) ==
    \/ FetchFails(t) /\ reason = <<"Failed to fetch">>
    \/ \E status \in Statuses, stream \in Streams :
            /\ NotOk(status)
            /\ FetchResponds(t, status, stream)
            /\ reason = <<"API Error: ", ToString(status)>>
    \/ ReadFails(t) /\ reason = <<"network error">>
    \/ \E body \in Bodies :
            /\ ~JSONParse(body).ok
            /\ JsonSettles(t, body)
            /\ reason = <<"Unexpected token">>

Reasons ==
    { <<"Failed to fetch">>, <<"network error">>, <<"Unexpected token">> }
        \cup { <<"API Error: ", ToString(status)>> : status \in Statuses }

\* the reply chat id gained in this step is the warning template with reason
ReplyIsWarning(id, reason) ==
    LET new == ChatById(chats', id).messages
    IN  new[Len(new)].content = WarningWith(reason)

\* C5 as claimed: on any failure of a turn its conversation gains one assistant
\* message holding the warning template with the failure reason (and nothing of
\* the text streamed so far), and sendMessage completes: the turn is over and
\* the in-flight flag is cleared.
C5_Original ==
    [][\A t \in turns, reason \in Reasons : FailureStep(t, reason) =>
            /\ GainsReply(t.chatId, t)
            /\ ReplyIsWarning(t.chatId, reason)
            /\ TurnEnds(t)
            /\ ~isLoading'
      ]_vars

\* C5 as amended: on any failure of a turn whose chat is still in the
\* collection, that chat gains one assistant message holding the warning
\* template with the failure reason and nothing of the text streamed so far;
\* when the chat has been deleted meanwhile, no chat changes. In both cases
\* sendMessage completes: the turn is over and the in-flight flag is cleared.
C5_FailureCommit ==
    [][\A t \in turns, reason \in Reasons : FailureStep(t, reason) =>
            /\ IF t.chatId \in ChatIds(chats)
               THEN /\ GainsReply(t.chatId, t)
                    /\ ReplyIsWarning(t.chatId, reason)
                    /\ OthersUnchanged(t.chatId)
               ELSE chats' = chats
            /\ TurnEnds(t)
            /\ ~isLoading'
      ]_vars

\* C5 witness: a stream failed after deltas had been emitted, and the chat ends
\* with the warning for that failure.
C5_Witness ==
    /\ turns = {}
    /\ emitted # <<>>
    /\ \E i \in DOMAIN chats :
        /\ Len(chats[i].messages) >= 2
        /\ chats[i].messages[Len(chats[i].messages)].content
                = WarningWith(<<"network error">>)

\* the reply chat id gained in this step contains "Error" and the status
ReplyNamesStatus(id, status) ==
    LET new == ChatById(chats', id).messages
        content == new[Len(new)].content
    IN  /\ \E k \in DOMAIN content : content[k] = "Error"
        /\ \E k \in DOMAIN content : content[k] = ToString(status)

\* C6 as claimed: when the request returns a non-OK status, the active chat
\* gains exactly one assistant message containing "Error" and the status, right
\* after the user message of the turn.
C6_Original ==
    [][\A t \in turns, status \in Statuses, stream \in Streams :
            NotOk(status) /\ FetchResponds(t, status, stream) =>
                GainsReply(activeChat, t) /\ ReplyNamesStatus(activeChat, status)
      ]_vars

\* C6 as amended: when the request returns a non-OK status, the chat that
\* received the turn's user message (the active chat only if the user has not
\* moved on meanwhile) gains, if it is still in the collection, exactly one
\* assistant message containing "Error" and the status, right after the user
\* message of the turn, and no other chat changes; if it has been deleted, no
\* chat changes.
C6_ApiErrorCommit ==
    [][\A t \in turns, status \in Statuses, stream \in Streams :
            NotOk(status) /\ FetchResponds(t, status, stream) =>
                IF t.chatId \in ChatIds(chats)
                THEN /\ GainsReply(t.chatId, t)
                     /\ ReplyNamesStatus(t.chatId, status)
                     /\ OthersUnchanged(t.chatId)
                ELSE chats' = chats
      ]_vars

\* C6 witness: a chat ends with a user message and the warning for status 500,
\* and it is not the active chat.
C6_Witness ==
    \E i \in DOMAIN chats :
        LET msgs == chats[i].messages
        IN  /\ Len(msgs) >= 2
            /\ msgs[Len(msgs) - 1].role = "user"
            /\ msgs[Len(msgs)].content = WarningWith(<<"API Error: ", "500">>)
            /\ activeChat # chats[i].id

\* C7: under a network that eventually answers and a stream that eventually
\* ends, every turn in flight leads to a state with no turn in flight, the
\* in-flight flag cleared and the streaming buffer empty; and whenever the flag
\* is clear a send with a prompt passes the entry check.
C7_TurnCompletes ==
    /\ (turns # {}) ~> (turns = {} /\ ~isLoading /\ streamingMessage = <<>>)
    /\ [](~isLoading => \A v \in Inputs : ~Blank(v) => ~Rejected(v, isLoading))

\* C7 witness: a streaming turn that emitted deltas has just committed its
\* reply, and the flag and the buffer are clear.
C7_Witness ==
    /\ turns = {}
    /\ ~isLoading
    /\ streamingMessage = <<>>
    /\ emitted # <<>>
    /\ \E i \in DOMAIN chats :
        /\ chats[i].messages # <<>>
        /\ chats[i].messages[Len(chats[i].messages)].id = nextId - 1
        /\ chats[i].messages[Len(chats[i].messages)].role = "assistant"

\* in this step some chat gains a user message
UserAppended ==
    \E id \in ChatIds(chats') :
        LET new == ChatById(chats', id).messages
        IN  /\ Len(new) >= 1
            /\ new[Len(new)].role = "user"
            /\ id \in ChatIds(chats) => Len(ChatById(chats, id).messages) < Len(new)

\* C8: turns are serialized across all chats: a user message is appended only
\* when no turn is in flight, and the reply to an earlier user message is
\* older than every later user message, in the same chat or in another.
C8_TurnsSerialized ==
    /\ [][mounted /\ UserAppended => turns = {}]_vars
    /\ [](\A i \in DOMAIN chats, j \in DOMAIN chats :
            \A p \in DOMAIN chats[i].messages, q \in DOMAIN chats[j].messages :
                LET u1 == chats[i].messages[p]
                    u2 == chats[j].messages[q]
                IN  ( /\ u1.role = "user"
                      /\ u2.role = "user"
                      /\ u1.timestamp < u2.timestamp
                      /\ p < Len(chats[i].messages) )
                    => /\ chats[i].messages[p + 1].role = "assistant"
                       /\ chats[i].messages[p + 1].timestamp < u2.timestamp)

\* C8 witness: two turns of this run: the first has its reply, and the user
\* message of the second has been appended after it.
C8_Witness ==
    \E i \in DOMAIN chats, j \in DOMAIN chats :
        \E p \in DOMAIN chats[i].messages, q \in DOMAIN chats[j].messages :
            /\ chats[i].messages[p].role = "user"
            /\ chats[i].messages[p].timestamp >= 1
            /\ p < Len(chats[i].messages)
            /\ chats[i].messages[p + 1].role = "assistant"
            /\ chats[j].messages[q].role = "user"
            /\ chats[i].messages[p + 1].timestamp < chats[j].messages[q].timestamp

\* the stored chat collection holds message msgId in chat chatId
InStore(store, chatId, msgId) ==
    /\ store # Missing
    /\ \E i \in DOMAIN ParseChats(store[1]) :
        /\ ParseChats(store[1])[i].id = chatId
        /\ \E k \in DOMAIN ParseChats(store[1])[i].messages :
                ParseChats(store[1])[i].messages[k].id = msgId

\* C9 as claimed: the user message of a turn is in the persisted chat
\* collection when the completion request of the turn is issued.
C9_Original == \A t \in turns : InStore(t.storedAtFetch, t.chatId, t.id)

\* C9 as amended: when the request of a turn is issued its user message is in
\* the in-memory collection and is the last message of the request, but not yet
\* in the persistence store; the store holds it once the task that issued the
\* request has run its effects, before any response is handled.
C9_UserMessageBeforeRequest ==
    [][\A t \in turns' : (\A u \in turns : u.id # t.id) =>
            /\ t.pc = "fetch"
            /\ t.chatId \in ChatIds(chats')
            /\ LET msgs == ChatById(chats', t.chatId).messages
               IN  /\ msgs[Len(msgs)].id = t.id
                   /\ msgs[Len(msgs)].role = "user"
                   /\ t.request.messages[Len(t.request.messages)]
                        = [role |-> "user", content |-> msgs[Len(msgs)].content]
            /\ ~InStore(t.storedAtFetch, t.chatId, t.id)
            /\ InStore(lsChats', t.chatId, t.id)
      ]_vars

\* C9 witness: a request is outstanding and unanswered; the store holds its
\* user message now and did not when fetch was called.
C9_Witness ==
    \E t \in turns :
        /\ t.pc = "fetch"
        /\ InStore(lsChats, t.chatId, t.id)
        /\ ~InStore(t.storedAtFetch, t.chatId, t.id)

\* C10: deleting the active chat removes exactly that chat, keeps the others in
\* order, and leaves the pointer on the first remaining chat, or null when none
\* remains.
C10_DeleteActive ==
    [][\A i \in DOMAIN chats :
            (deleteChat(chats[i].id) /\ activeChat = chats[i].id) =>
                /\ chats[i].id \notin ChatIds(chats')
                /\ Len(chats') = Len(chats) - 1
                /\ \A j \in DOMAIN chats' :
                        chats'[j] = chats[IF j < i THEN j ELSE j + 1]
                /\ activeChat' = IF chats' = <<>> THEN Null ELSE chats'[1].id
      ]_vars

\* C10 witness: chats were created in this run and the last of them, the
\* active one, has been deleted: the collection is empty and the pointer null.
C10_Witness == mounted /\ nextId > 1 /\ chats = <<>> /\ activeChat = Null

\* the ids a chat may have had: those of the stored chat and of this run
IdSpace == ((-1)..(MaxIds + 1)) \ {Null}

\* chats' is chats without its i-th chat, the others as they were and in order
RemovedAt(i) ==
    /\ Len(chats') = Len(chats) - 1
    /\ \A j \in DOMAIN chats' : chats'[j] = chats[IF j < i THEN j ELSE j + 1]

\* C11: deleting a chat that is not the active one leaves the pointer as it is
\* and removes exactly that chat, the others unchanged and in order; for an id
\* that matches no chat the removal yields the same collection and the same
\* pointer.
C11_DeleteInactive ==
    /\ [][\A i \in DOMAIN chats :
            (deleteChat(chats[i].id) /\ activeChat # chats[i].id) =>
                activeChat' = activeChat /\ RemovedAt(i)]_vars
    /\ [](\A id \in IdSpace : id \notin ChatIds(chats) =>
            /\ RemoveChat(chats, id) = chats
            /\ NextActive(chats, activeChat, id) = activeChat)

\* C11 witness: a chat created in this run has been deleted, two chats remain
\* and the pointer is on the second of them.
C11_Witness ==
    /\ Len(chats) = 2
    /\ activeChat = chats[2].id
    /\ \E id \in 1..(nextId - 1) :
            id \notin ChatIds(chats) /\ id > chats[1].id /\ lsActive = activeChat

\* C12: createNewChat adds exactly one chat, titled "New Chat" and without
\* messages, at the front of the collection and makes it the active chat; the
\* chats that existed keep their content and order; and it can be taken in
\* every state of the running application, also while a turn is in flight.
C12_CreateNewChat ==
    /\ [][createNewChat =>
            /\ Len(chats') = Len(chats) + 1
            /\ chats'[1].id \notin ChatIds(chats)
            /\ chats'[1].title = <<"New Chat">>
            /\ chats'[1].messages = <<>>
            /\ activeChat' = chats'[1].id
            /\ \A i \in DOMAIN chats : chats'[i + 1] = chats[i]]_vars
    /\ []((mounted /\ IdsLeft >= 1) => ENABLED createNewChat)

\* C12 witness: a chat was created while a turn was in flight: it is first,
\* active, empty and newer than the turn.
C12_Witness ==
    /\ chats # <<>>
    /\ chats[1].title = <<"New Chat">>
    /\ chats[1].messages = <<>>
    /\ activeChat = chats[1].id
    /\ \E t \in turns : t.id < chats[1].id /\ t.chatId \in ChatIds(chats)

\* the title rule as the claim states it: the first 50 characters, followed by
\* "..." exactly when there are more than 50
TitleOf(content) ==
    IF Len(content) > 50 THEN SubSeq(content, 1, 50) \o <<"...">> ELSE content

\* the user messages of a chat
UserMessages(c) == SelectSeq(c.messages, LAMBDA m : m.role = "user")

\* C13: every chat that has a message has the truncation of its first user
\* message as its title, and no step changes the title of a chat that has a
\* message.
C13_TitleFromFirstUserMessage ==
    /\ [](\A i \in DOMAIN chats : chats[i].messages # <<>> =>
            /\ UserMessages(chats[i]) # <<>>
            /\ chats[i].title = TitleOf(UserMessages(chats[i])[1].content))
    /\ [][\A id \in ChatIds(chats) \cap ChatIds(chats') :
            ChatById(chats, id).messages # <<>> =>
                ChatById(chats', id).title = ChatById(chats, id).title]_vars

\* C13 witness: a chat that began with a prompt of 51 characters has received
\* its reply, and its title is the first 50 characters and the ellipsis.
C13_Witness ==
    \E i \in DOMAIN chats :
        /\ Len(chats[i].messages) >= 2
        /\ Len(chats[i].messages[1].content) = 51
        /\ chats[i].messages[2].role = "assistant"
        /\ Len(chats[i].title) = 51
        /\ chats[i].title[51] = "..."

\* the effect of an accepted send, as the claim states it: without an active
\* chat one chat is created at the front, made active, titled from the input
\* and given the input as its first user message; with an active chat no chat
\* is created and the input is appended to the active chat as a user message
SendEffect ==
    IF activeChat = Null
    THEN /\ Len(chats') = Len(chats) + 1
         /\ chats'[1].id \notin ChatIds(chats)
         /\ \A i \in DOMAIN chats : chats'[i + 1] = chats[i]
         /\ activeChat' = chats'[1].id
         /\ Len(chats'[1].messages) = 1
         /\ chats'[1].messages[1].role = "user"
         /\ chats'[1].messages[1].content = inputValue
         /\ chats'[1].title = TitleOf(inputValue)
    ELSE /\ activeChat' = activeChat
         /\ OthersUnchanged(activeChat)
         /\ activeChat \in ChatIds(chats')
         /\ LET old == ChatById(chats, activeChat).messages
                new == ChatById(chats', activeChat).messages
            IN  /\ Len(new) = Len(old) + 1
                /\ SubSeq(new, 1, Len(old)) = old
                /\ new[Len(new)].role = "user"
                /\ new[Len(new)].content = inputValue

\* the ids one accepted send needs: chat (when none is active), user message,
\* reply
IdsFor(active) == IF active = Null THEN 3 ELSE 2

\* C14 as claimed: whenever the input is not blank, a send has the effect
\* above.
C14_Original ==
    (mounted /\ ~Blank(inputValue) /\ IdsLeft >= IdsFor(activeChat))
        => ENABLED (sendMessage /\ SendEffect)

\* C14 as amended: whenever the input is not blank and no turn is in flight, a
\* send has the effect above; a send made while a turn is in flight creates no
\* chat and appends nothing.
C14_SendTargetsChat ==
    /\ [][(~Blank(inputValue) /\ ~isLoading /\ sendMessage) => SendEffect]_vars
    /\ []((mounted /\ ~Blank(inputValue) /\ ~isLoading
                /\ IdsLeft >= IdsFor(activeChat))
            => ENABLED (sendMessage /\ SendEffect))
    /\ [][(isLoading /\ sendMessage) => chats' = chats]_vars

\* C14 witness: a prompt of 51 characters was sent with no chat active: its
\* request is outstanding, and the chat created for it is first, active, holds
\* the prompt alone and is titled with the cut prompt.
C14_Witness ==
    \E t \in turns :
        /\ t.pc = "fetch"
        /\ chats # <<>>
        /\ chats[1].id = t.chatId
        /\ chats[1].id = t.id - 1
        /\ activeChat = t.chatId
        /\ Len(chats[1].messages) = 1
        /\ Len(chats[1].messages[1].content) = 51
        /\ chats[1].title = TitleOf(chats[1].messages[1].content)

\* old is a prefix of new
IsPrefix(old, new) == Len(old) <= Len(new) /\ SubSeq(new, 1, Len(old)) = old

\* C15: messages are append-only: in every step, the message sequence of every
\* chat that exists before and after is a prefix of its sequence after, so the
\* id, role, content and timestamp of a message never change once appended.
C15_AppendOnly ==
    [][mounted => \A id \in ChatIds(chats) \cap ChatIds(chats') :
            IsPrefix(ChatById(chats, id).messages, ChatById(chats', id).messages)
      ]_vars

\* C15 witness: the stored chat has gone through a turn of this run: its two
\* stored messages are followed by the user message and the reply.
C15_Witness ==
    \E i \in DOMAIN chats :
        /\ chats[i].id = OldChat.id
        /\ Len(chats[i].messages) = 4
        /\ SubSeq(chats[i].messages, 1, 2) = OldChat.messages
        /\ chats[i].messages[3].id >= 1
        /\ chats[i].messages[4].role = "assistant"

\* the roles of a message sequence alternate, starting with a user message
Alternates(msgs) ==
    \A k \in DOMAIN msgs :
        msgs[k].role = IF k % 2 = 1 THEN "user" ELSE "assistant"

\* C16 as claimed: in every reachable state the messages of every chat
\* alternate user, assistant, user, ... starting with a user message.
C16_Original == \A i \in DOMAIN chats : Alternates(chats[i].messages)

\* C16 as amended: every chat with messages starts with a user message, two
\* assistant messages are never adjacent, and two user messages are adjacent
\* only when the first of them was loaded from the store, left unanswered by
\* a run that ended during its turn; within one run a user message is last in
\* its chat only while its turn is in flight.
C16_Alternation ==
    \A i \in DOMAIN chats :
        LET msgs == chats[i].messages
        IN  /\ msgs # <<>> => msgs[1].role = "user"
            /\ \A k \in 1..(Len(msgs) - 1) :
                    /\ ~(msgs[k].role = "assistant" /\ msgs[k + 1].role = "assistant")
                    /\ (msgs[k].role = "user" /\ msgs[k + 1].role = "user")
                            => msgs[k].id < 0
            /\ (msgs # <<>> /\ msgs[Len(msgs)].role = "user")
                    => \/ msgs[Len(msgs)].id < 0
                       \/ \E t \in turns : t.id = msgs[Len(msgs)].id

\* C16 witness: the chat loaded with an unanswered user message has received
\* a user message and its reply in this run.
C16_Witness ==
    \E i \in DOMAIN chats :
        /\ Len(chats[i].messages) = 5
        /\ chats[i].messages[3].role = "user"
        /\ chats[i].messages[4].role = "user"
        /\ chats[i].messages[5].role = "assistant"

\* the last snapshot emitted in this turn, '' before the first
LastEmitted == IF emitted = <<>> THEN <<>> ELSE emitted[Len(emitted)]

\* the delta content a well-formed data line carries, as the wire format of the
\* specification reads it; <<>> for the end sentinel
LineDelta(chunk) ==
    CASE chunk[2] = JsonDeltaA -> <<"A">>
      [] chunk[2] = JsonDeltaB -> <<"B">>
      [] OTHER -> <<>>

ContentBearing(chunk) == chunk[2] # "[DONE]"

\* the reply chat id gained in this step
Reply(id) == ChatById(chats', id).messages[Len(ChatById(chats', id).messages)]

\* C17: for streams of well-formed data lines, one line a chunk: reading a
\* content-bearing line emits the previous snapshot extended by the delta of the
\* line (so the k-th emission is the concatenation of the first k deltas),
\* reading the end sentinel emits nothing, and at the end of the body the text
\* committed is the last snapshot emitted.
C17_StreamAccumulates ==
    /\ [][\A t \in turns : ReadChunk(t) =>
            IF ContentBearing(Head(t.body))
            THEN /\ emitted' = Append(emitted, LastEmitted \o LineDelta(Head(t.body)))
                 /\ streamingMessage' = LastEmitted \o LineDelta(Head(t.body))
            ELSE /\ emitted' = emitted
                 /\ streamingMessage' = streamingMessage]_vars
    /\ [][\A t \in turns : (ReadDone(t) /\ t.chatId \in ChatIds(chats)) =>
            /\ GainsReply(t.chatId, t)
            /\ Reply(t.chatId).content = LastEmitted]_vars
    /\ [](\A k \in 2..Len(emitted) : IsPrefix(emitted[k - 1], emitted[k]))

\* C17 witness: the stream of deltas A, B and the sentinel has been read to its
\* end: the emissions were "A" and "AB" and the reply committed is "AB".
C17_Witness ==
    /\ turns = {}
    /\ emitted = << <<"A">>, <<"A", "B">> >>
    /\ \E i \in DOMAIN chats :
        /\ chats[i].messages # <<>>
        /\ chats[i].messages[Len(chats[i].messages)].role = "assistant"
        /\ chats[i].messages[Len(chats[i].messages)].content = <<"A", "B">>
        /\ chats[i].messages[Len(chats[i].messages)].id = nextId - 1

\* a data line whose payload is no JSON document
Malformed(chunk) ==
    /\ chunk[1] = "data: "
    /\ chunk[2] \notin {JsonDeltaA, JsonDeltaB, "[DONE]"}

\* the turn that t has become in this step
Continued(t) == CHOOSE u \in turns' : u.id = t.id

\* C18: reading a data line that is no JSON leaves the accumulated text, the
\* emissions and the chats as they are and the turn reading; the valid lines
\* after it are accumulated, so the body of deltas A, a malformed line and B
\* ends in the reply "AB", a success and no error message.
C18_MalformedLineSkipped ==
    /\ [][\A t \in turns : (ReadChunk(t) /\ Malformed(Head(t.body))) =>
            /\ \E u \in turns' : u.id = t.id
            /\ Continued(t).pc = "read"
            /\ Continued(t).assistantContent = t.assistantContent
            /\ Continued(t).body = Tail(t.body)
            /\ UNCHANGED <<emitted, streamingMessage, chats, isLoading>>]_vars
    /\ [][\A t \in turns : (ReadDone(t) /\ t.chatId \in ChatIds(chats)) =>
            /\ GainsReply(t.chatId, t)
            /\ Reply(t.chatId).content = <<"A", "B">>]_vars
    /\ [](\A t \in turns : t.pc = "read" =>
            /\ Len(t.body) = 1 => t.assistantContent = <<"A">>
            /\ Len(t.body) = 0 => t.assistantContent = <<"A", "B">>)

\* C18 witness: the body with the malformed line has been read to its end and
\* the chat ends with the reply "AB", both deltas having been emitted.
C18_Witness ==
    /\ turns = {}
    /\ ~isLoading
    /\ emitted = << <<"A">>, <<"A", "B">> >>
    /\ \E i \in DOMAIN chats :
        /\ Len(chats[i].messages) >= 2
        /\ chats[i].messages[Len(chats[i].messages)].role = "assistant"
        /\ chats[i].messages[Len(chats[i].messages)].content = <<"A", "B">>

\* C19: a delta emission changes the streaming buffer alone: a step that
\* emits, and every read of a chunk, leaves the chat collection and the stored
\* chats as they are; while a turn reads its body the chat ends with the
\* user message of the turn and the store holds the collection as it is in
\* memory, without any of the text streamed so far.
C19_EmissionsAreTransient ==
    /\ [][(emitted' # emitted /\ emitted' # <<>>) =>
            /\ UNCHANGED <<chats, lsChats>>
            /\ streamingMessage' = emitted'[Len(emitted')]]_vars
    /\ [][(\E t \in turns : ReadChunk(t)) => UNCHANGED <<chats, lsChats>>]_vars
    /\ [](\A t \in turns : t.pc = "read" =>
            /\ lsChats = Stored(StringifyChats(chats))
            /\ t.chatId \in ChatIds(chats) =>
                    LET msgs == ChatById(chats, t.chatId).messages
                    IN  msgs[Len(msgs)].id = t.id /\ msgs[Len(msgs)].role = "user")

\* C19 witness: a turn is reading its body and has emitted a delta; its chat
\* ends with the user message and the store holds the chats as in memory.
C19_Witness ==
    \E t \in turns :
        /\ t.pc = "read"
        /\ emitted # <<>>
        /\ streamingMessage = emitted[Len(emitted)]
        /\ t.chatId \in ChatIds(chats)
        /\ lsChats = Stored(StringifyChats(chats))

\* the chats the store holds, <<>> when the key is missing
StoredChats == IF lsChats = Missing THEN <<>> ELSE ParseChats(lsChats[1])

\* C20 as claimed: once the writes of a task have run, the stored chats are
\* the chats in memory and the stored active id is the pointer, absent when
\* the pointer is null, so that a stored active id always refers to a stored
\* chat.
C20_Original ==
    mounted =>
        /\ lsChats # Missing
        /\ StoredChats = chats
        /\ lsActive = activeChat
        /\ lsActive # Null => lsActive \in ChatIds(StoredChats)

\* C20 as amended: once the writes of a task have run, the stored chats are
\* the chats in memory, and the stored active id is the pointer whenever the
\* pointer is not null. When the pointer is null (which is when no chat is
\* left) the stored id is not removed: it is absent only if no id was ever
\* stored, and otherwise it is the id of a chat deleted earlier, which is in
\* neither collection.
C20_StoreMatchesMemory ==
    mounted =>
        /\ lsChats # Missing
        /\ StoredChats = chats
        /\ activeChat # Null => lsActive = activeChat
        /\ activeChat = Null =>
                /\ chats = <<>>
                /\ lsActive # Null => lsActive \notin ChatIds(StoredChats)

\* C20 witness: the last chat, created and made active in this run, has been
\* deleted: the pointer is null and the store still holds its id.
C20_Witness ==
    /\ mounted
    /\ activeChat = Null
    /\ lsActive >= 1
    /\ StoredChats = <<>>
    /\ lsChats # Missing

\* the turns that start in this step
Started == {t \in turns' : \A u \in turns : u.id # t.id}

\* the role and content of each message of a sequence
Wire(msgs) == [i \in DOMAIN msgs |-> [role |-> msgs[i].role, content |-> msgs[i].content]]

\* C21: the messages of a completion request are one system message with the
\* configured system prompt followed by the role and content of every message
\* of the turn's chat, in order, the last being the user message appended for
\* this turn; there is no other system message.
C21_RequestMessages ==
    [][\A t \in Started :
            LET msgs == ChatById(chats', t.chatId).messages
                sent == t.request.messages
            IN  /\ sent = <<[role |-> "system", content |-> settings.systemPrompt]>>
                                \o Wire(msgs)
                /\ Cardinality({i \in DOMAIN sent : sent[i].role = "system"}) = 1
                /\ msgs[Len(msgs)].id = t.id
                /\ sent[Len(sent)] = [role |-> "user", content |-> inputValue]
      ]_vars

\* C21 witness: a request is outstanding for the stored chat: it holds the
\* system message, the two stored messages and the new user message, while
\* another chat exists.
C21_Witness ==
    \E t \in turns :
        /\ t.pc = "fetch"
        /\ t.chatId = OldChat.id
        /\ Len(t.request.messages) = 4
        /\ t.request.messages[4].role = "user"
        /\ Len(chats) >= 2

\* the Authorization header of a request, if any
Authorization(request) == {h \in request.headers : h[1] = "Authorization"}

\* C22: a completion request carries an Authorization header exactly when the
\* connection type is cloud and the API key is not empty, and then it is the
\* bearer form of the key; it goes to the cloud endpoint with the cloud model
\* exactly when the connection type is cloud, and to the local ones otherwise.
C22_RequestTarget ==
    [][\A t \in Started :
            /\ Authorization(t.request) # {}
                    <=> (settings.connectionType = "cloud" /\ settings.apiKey # <<>>)
            /\ \A h \in Authorization(t.request) :
                    h[2] = <<"Bearer ">> \o settings.apiKey
            /\ settings.connectionType = "cloud" =>
                    /\ t.request.url = <<settings.cloudEndpoint, "/chat/completions">>
                    /\ t.request.model = settings.model
            /\ settings.connectionType # "cloud" =>
                    /\ t.request.url = <<settings.localEndpoint, "/chat/completions">>
                    /\ t.request.model = settings.localModel
                    /\ Authorization(t.request) = {}
      ]_vars

\* C22 witness: a request is outstanding that was issued with the connection
\* type local while a key was configured: it carries no Authorization header.
C22_Witness ==
    \E t \in turns :
        /\ t.pc = "fetch"
        /\ t.settings.connectionType = "local"
        /\ t.settings.apiKey # <<>>
        /\ Authorization(t.request) = {}
        /\ t.request.url[1] = DefaultSettings.localEndpoint

\* the document has the field choices[0].message.content
HasMessageContent(doc) ==
    /\ "choices" \in DOMAIN doc
    /\ Len(doc.choices) >= 1
    /\ "message" \in DOMAIN doc.choices[1]
    /\ "content" \in DOMAIN doc.choices[1].message

\* the turn t settles on the JSON document of the given body in this step, and
\* its chat, which is still there, gains the reply
SettlesOn(t, body) ==
    /\ JsonSettles(t, body)
    /\ JSONParse(body).ok
    /\ t.chatId \in ChatIds(chats)

\* C23 as stated: on the non-streaming path the committed content is the
\* first choice's message content whenever the field is present in the
\* document, and the literal only when it is absent.
C23_Original ==
    [][\A t \in turns, body \in Bodies :
            SettlesOn(t, body) =>
                LET doc == JSONParse(body).value
                IN  Reply(t.chatId).content =
                        IF HasMessageContent(doc)
                        THEN doc.choices[1].message.content
                        ELSE <<"No response received.">>
      ]_vars

\* C23: on the non-streaming path with an OK status the chat of the turn gains
\* one assistant message; its content is the first choice's message content
\* when the field is present and not the empty string, and the literal
\* "No response received." when the field is absent or is the empty string.
C23_NonStreamingContent ==
    [][\A t \in turns, body \in Bodies :
            SettlesOn(t, body) =>
                LET doc == JSONParse(body).value
                IN  /\ GainsReply(t.chatId, t)
                    /\ Reply(t.chatId).content =
                            IF /\ HasMessageContent(doc)
                               /\ doc.choices[1].message.content # <<>>
                            THEN doc.choices[1].message.content
                            ELSE <<"No response received.">>
                    /\ Reply(t.chatId).content # <<>>
      ]_vars

\* C23 witness: a non-streaming turn has ended and its chat ends with the
\* user message followed by a reply whose content is the literal, as committed
\* for a document without the field and for one whose content is "".
C23_Witness ==
    /\ turns = {}
    /\ ~settings.streaming
    /\ MessageContentOf(JSONParse(<<JsonBlank>>).value) = <<"No response received.">>
    /\ \E i \in DOMAIN chats :
          LET msgs == chats[i].messages
          IN  /\ Len(msgs) >= 2
              /\ msgs[Len(msgs) - 1].role = "user"
              /\ msgs[Len(msgs)].role = "assistant"
              /\ msgs[Len(msgs)].content = <<"No response received.">>

\* the call of MessageContent has returned its segments
Parsed == messageContent \in Contents /\ ~matching

\* the text has a fenced block: an opening fence, a run of word characters, a
\* line feed and, later, a closing fence
HasFencedBlock(text) ==
    \E i, j, k \in DOMAIN text :
        /\ FenceAt(text, i)
        /\ j >= i + 3
        /\ \A x \in (i + 3)..(j - 1) : text[x] \in WordChars
        /\ text[j] = "\n"
        /\ k > j
        /\ FenceAt(text, k)

\* C24: MessageContent applied to a text without a fenced block returns exactly
\* one segment, of type text, whose content is the input; so it does for the
\* empty text.
C24_NoFenceOneTextSegment ==
    (Parsed /\ ~HasFencedBlock(messageContent))
        => parts = <<[type |-> "text", content |-> messageContent]>>

\* C24 witness: the call has returned for a text of backticks, a word character
\* and a line feed that has three backticks in a row but no fenced block.
C24_Witness ==
    /\ Parsed
    /\ ~HasFencedBlock(messageContent)
    /\ Len(messageContent) >= 5
    /\ FenceAt(messageContent, 1)
    /\ \E i \in DOMAIN messageContent : messageContent[i] = "\n"
    /\ Len(parts) = 1

\* the source text of a segment: its content, and for a code segment the
\* opening fence, the given tag and a line feed before it and the closing fence
\* after it
Source(part, tag) ==
    IF part.type = "code"
    THEN Fence \o tag \o <<"\n">> \o part.content \o Fence
    ELSE part.content

\* the segments written back in order, code segments with their language
RECURSIVE Unparse(_)
Unparse(ps) ==
    IF ps = <<>> THEN <<>>
    ELSE Source(Head(ps), IF Head(ps).type = "code" THEN Head(ps).language ELSE <<>>)
            \o Unparse(Tail(ps))

\* the segments written back in order, a code segment whose language is the
\* label code without a tag where bare[i] holds
RECURSIVE UnparseWith(_, _, _)
UnparseWith(ps, bare, i) ==
    IF i > Len(ps) THEN <<>>
    ELSE Source(ps[i], IF ps[i].type # "code" \/ bare[i] THEN <<>> ELSE ps[i].language)
            \o UnparseWith(ps, bare, i + 1)

Labelled(part) == part.type = "code" /\ part.language = <<"c", "o", "d", "e">>

TextOf(bytes) == ProcessLines(Lines(bytes), [content |-> <<>>, emits |-> <<>>]).content

\* C26: the text committed at the end of a streaming turn depends on the
\* event lines of the body only, not on the chunks the body arrives in: for
\* every chunking of EventBytes, also one that cuts a data line in two, the
\* reply is the text of the lines of EventBytes.
C26_ChunkingIndependence ==
    [][\A t \in turns :
            (/\ ReadDone(t)
             /\ t.chatId \in ChatIds(chats)
             /\ \A stream \in ChunkStreams : Flatten(stream) = EventBytes)
                => Reply(t.chatId).content = TextOf(EventBytes)
      ]_vars

\* C27: the step that ends a turn appends the assistant message (reply or
\* error) to the chat whose last message is the turn's user message, whatever
\* chat is active then, also after the user selected or created another chat
\* while the turn was in flight; every other chat, the order of the chats and
\* the active pointer are unchanged by the step.
C27_ReplyToTurnsChat ==
    [][\A t \in turns :
            TurnEnds(t) =>
                /\ Len(chats') = Len(chats)
                /\ activeChat' = activeChat
                /\ \A i \in DOMAIN chats :
                        IF chats[i].id # t.chatId THEN chats'[i] = chats[i]
                        ELSE LET old == chats[i].messages
                                 new == chats'[i].messages
                             IN  /\ chats'[i] = [chats[i] EXCEPT !.messages = new]
                                 /\ old[Len(old)].id = t.id
                                 /\ Len(new) = Len(old) + 1
                                 /\ SubSeq(new, 1, Len(old)) = old
                                 /\ new[Len(new)].role = "assistant"
      ]_vars

\* C27 witness: a chat that is not the active one ends with a user message and
\* an assistant message, and the active chat, which has no message, was created
\* after the user message and before the assistant message.
C27_Witness ==
    /\ turns = {}
    /\ \E i, j \in DOMAIN chats :
        /\ chats[j].id = activeChat
        /\ chats[j].messages = <<>>
        /\ i # j
        /\ LET msgs == chats[i].messages
           IN  /\ Len(msgs) >= 2
               /\ msgs[Len(msgs) - 1].role = "user"
               /\ msgs[Len(msgs)].role = "assistant"
               /\ msgs[Len(msgs) - 1].id < activeChat
               /\ activeChat < msgs[Len(msgs)].id

\* C28: a turn works on the settings of the render it started in: it keeps
\* them while settings are loadEffect, its request is the one built from them, and
\* its response is read as an event stream exactly when the request said
\* stream: true and as one JSON document exactly when it said stream: false.
C28_OneSettingsSnapshot ==
    /\ [](\A t \in turns :
            /\ t.request.stream = t.settings.streaming
            /\ t.request.url[1] = IF t.settings.connectionType = "cloud"
                                  THEN t.settings.cloudEndpoint
                                  ELSE t.settings.localEndpoint
            /\ t.pc = "read" => t.request.stream
            /\ t.pc = "json" => ~t.request.stream)
    /\ [][\A t \in turns, u \in turns' :
            u.id = t.id => (u.settings = t.settings /\ u.request = t.request)]_vars

\* C28 witness: a turn reads an event stream, as its request asked, after the
\* settings were loadEffect without streaming and with another connection type.
C28_Witness ==
    \E t \in turns :
        /\ t.pc = "read"
        /\ t.request.stream
        /\ ~settings.streaming
        /\ settings.connectionType # t.settings.connectionType

\* C29: once the mount effects have run, the active-chat pointer is null
\* exactly when there is no chat, whatever was created, deleted, selected or
\* sent since, also while a turn is in flight.
C29_NullIffEmpty == mounted => (activeChat = Null <=> chats = <<>>)

\* C29 witness: a chat was created and then deleted while it was active; the
\* stored chat is left and the pointer is on it.
C29_Witness ==
    /\ mounted
    /\ nextId > 1
    /\ chats = <<OldChat>>
    /\ activeChat = OldChat.id
    /\ lsChats = Stored(StringifyChats(chats))

\* what the load effect found stored as the chat collection
Persisted == IF loadEffect[1].savedChats = Missing THEN <<>>
             ELSE ParseChats(loadEffect[1].savedChats[1])

\* C30: the load effect reads the store as the earlier run left it, before the
\* persist effects of the first render write the empty collection over it; the
\* render it causes makes the chat collection the persisted collection and
\* writes it back to the store, and makes the pointer the persisted id when a
\* persisted chat has it, otherwise the id of the first persisted chat,
\* otherwise null, so that the id of a deleted chat is never adopted.
C30_StartupRestore ==
    /\ [][MountEffects =>
            /\ loadEffect' = <<[savedChats |-> lsChats, savedSettings |-> lsSettings,
                           savedActiveChat |-> lsActive]>>
            /\ chats' = <<>> /\ activeChat' = Null
       ]_vars
    /\ [][Rerender =>
            /\ chats' = Persisted
            /\ lsChats' = Stored(StringifyChats(Persisted))
            /\ activeChat' =
                    IF loadEffect[1].savedActiveChat \in ChatIds(Persisted)
                    THEN loadEffect[1].savedActiveChat
                    ELSE IF Persisted # <<>> THEN Persisted[1].id
                    ELSE Null
            /\ activeChat' = Null \/ activeChat' \in ChatIds(Persisted)
            /\ activeChat' # Null => lsActive' = activeChat'
       ]_vars

\* C30 witness: startup has completed over a store of two chats and the id of
\* a deleted chat: both chats are loaded and stored again, and the pointer is
\* on the first, not on the stored id.
C30_Witness ==
    /\ mounted
    /\ loadEffect # <<>>
    /\ loadEffect[1].savedActiveChat = StaleId
    /\ chats = <<OldChat, OlderChat>>
    /\ lsChats = Stored(StringifyChats(<<OldChat, OlderChat>>))
    /\ activeChat = OldChat.id
    /\ lsActive = OldChat.id

====
